---- MODULE Spec2Model ----
(***************************************************************************)
(* Expense splitting, balance computation and settlement suggestions of    *)
(* the trip planner: the trip routes of the backend (membership, add       *)
(* expense, trip statistics) and the Expenses page of the frontend.        *)
(*                                                                         *)
(* Numbers.  The program keeps money in JavaScript numbers (IEEE doubles). *)
(* The model keeps a number as an integer count of thousandths of a        *)
(* currency unit, so one cent (0.01) is Cent = 10 model units.  A division *)
(* rounds to the nearest model unit where a double rounds to the nearest   *)
(* representable double; sums and differences are exact.  What the model   *)
(* shares with doubles: the API accepts amounts that are not whole cents,  *)
(* a quotient need not be exact, x - x = 0 exactly.                        *)
(***************************************************************************)
EXTENDS Integers, Sequences, FiniteSets, TLC

VARIABLES
    members,      \* tripMember rows of the trip, in createdAt order
    nextRowId,    \* id the next tripMember row gets
    expenses,     \* expense rows of the trip (with their splits), in createdAt order
    reqs,         \* POST /:tripId/expenses requests in flight
    page          \* state of the Expenses page of one signed-in user

vars == <<members, nextRowId, expenses, reqs, page>>

----------------------------------------------------------------------------
(* Bounds and input sets *)

MaxRows == 3          \* tripMember rows ever created
MaxRequests == 1      \* add-expense requests in flight at once
MaxExpenses == 1      \* expense rows stored plus requests under way
MaxNet == 2           \* largest |net| (in cents) of the balances drawn in SpecSettle

Cent == 10            \* model units in 0.01

Users == {"A", "B", "C"}
Owner == "A"

UserName(u) == CASE u = "A" -> "Alice" [] u = "B" -> "Bob" [] OTHER -> "Carol"

Money(dollars, cents) == (dollars * 100 + cents) * Cent

----------------------------------------------------------------------------
(* Number helpers *)

Min(a, b) == IF a <= b THEN a ELSE b

Abs(a) == IF a < 0 THEN -a ELSE a

\* a / n on numbers: the quotient rounded to the nearest model unit
Divide(a, n) == (2 * a + n) \div (2 * n)

\* parseFloat(x.toFixed(2)) for x >= 0: the nearest whole cent, halves upwards
ToFixed2(x) == ((2 * x + Cent) \div (2 * Cent)) * Cent

RECURSIVE SumSplits(_)
SumSplits(splits) ==
    IF splits = <<>> THEN 0
    ELSE Head(splits).amount + SumSplits(Tail(splits))

RECURSIVE SumAmounts(_)
SumAmounts(exps) ==
    IF exps = <<>> THEN 0
    ELSE Head(exps).amount + SumAmounts(Tail(exps))

RECURSIVE Reverse(_)
Reverse(s) == IF s = <<>> THEN <<>> ELSE Append(Reverse(Tail(s)), Head(s))

Range(s) == {s[k] : k \in 1..Len(s)}

----------------------------------------------------------------------------
(* Totals on doubles.  Where the order of the additions decides the result *)
(* (the totals of the ledger) the model adds as the program does, on IEEE  *)
(* 754 doubles.  A finite double x >= 0 is its significand m, a natural    *)
(* number of exactly Precision bits, and the exponent e of its last bit:   *)
(* x = m * 2^e; zero is DZero.  Every positive double has one such form,   *)
(* so equal records are equal numbers.  A natural number too large for an  *)
(* integer of the model is the sequence of its digits in base Base, lowest *)
(* digit first, without leading zero digits; 0 is the empty sequence.      *)

Precision == 53       \* bits of the significand of a JavaScript number

DigitBits == 15       \* bits of one digit of a large natural number

Base == 2 ^ DigitBits

Units == 100 * Cent   \* model units in 1.00

DZero == [m |-> <<>>, e |-> 0]

\* big without its leading zero digits
Norm(big) ==
    LET used == {i \in 1..Len(big) : big[i] # 0}
    IN  IF used = {} THEN <<>>
        ELSE SubSeq(big, 1, CHOOSE i \in used : \A j \in used : j <= i)

BigOfInt(k) == Norm(<<k % Base, (k \div Base) % Base, k \div (Base * Base)>>)

\* number of bits of a digit
DigitLen(x) == CHOOSE n \in 0..DigitBits : x < 2 ^ n /\ (n = 0 \/ x >= 2 ^ (n - 1))

BitLen(big) ==
    IF big = <<>> THEN 0
    ELSE DigitBits * (Len(big) - 1) + DigitLen(big[Len(big)])

\* bit i of big, bit 0 the lowest
Bit(big, i) ==
    IF i \div DigitBits + 1 > Len(big) THEN 0
    ELSE (big[i \div DigitBits + 1] \div (2 ^ (i % DigitBits))) % 2

\* big * 2^s
ShiftLeft(big, s) ==
    LET q == s \div DigitBits
        t == s % DigitBits
    IN  Norm([j \in 1..(Len(big) + q + 1) |->
                IF j <= q THEN 0
                ELSE (IF j - q <= Len(big) THEN (big[j - q] * (2 ^ t)) % Base ELSE 0)
                     + (IF j - q - 1 >= 1 THEN big[j - q - 1] \div (2 ^ (DigitBits - t))
                        ELSE 0)])

\* big \div 2^r
ShiftRight(big, r) ==
    LET q == r \div DigitBits
        t == r % DigitBits
    IN  IF Len(big) <= q THEN <<>>
        ELSE Norm([i \in 1..(Len(big) - q) |->
                    (big[i + q] \div (2 ^ t))
                    + (IF i + q + 1 <= Len(big)
                       THEN (big[i + q + 1] % (2 ^ t)) * (2 ^ (DigitBits - t))
                       ELSE 0)])

\* a + b + c, digit by digit from the lowest, c the carry in
RECURSIVE AddBigCarry(_, _, _)
AddBigCarry(a, b, c) ==
    IF a = <<>> /\ b = <<>> THEN (IF c = 0 THEN <<>> ELSE <<c>>)
    ELSE LET t == (IF a = <<>> THEN 0 ELSE Head(a))
                  + (IF b = <<>> THEN 0 ELSE Head(b)) + c
         IN  <<t % Base>> \o AddBigCarry(IF a = <<>> THEN <<>> ELSE Tail(a),
                                         IF b = <<>> THEN <<>> ELSE Tail(b),
                                         t \div Base)

AddBig(a, b) == Norm(AddBigCarry(a, b, 0))

\* long division of big by the small number d, from the highest digit;
\* r is the remainder carried in
RECURSIVE DivSmallFrom(_, _, _, _)
DivSmallFrom(big, n, d, r) ==
    IF n = 0 THEN [q |-> <<>>, r |-> r]
    ELSE LET t == r * Base + big[n]
             low == DivSmallFrom(big, n - 1, d, t % d)
         IN  [q |-> Append(low.q, t \div d), r |-> low.r]

DivSmall(big, d) ==
    LET res == DivSmallFrom(big, Len(big), d, 0)
    IN  [q |-> Norm(res.q), r |-> res.r]

\* the double nearest to big * 2^e (plus a nonzero fraction of 2^e when
\* sticky is set), ties to the even significand; big > 0
RoundBig(big, e, sticky) ==
    LET len == BitLen(big)
        r == len - Precision
    IN  IF r <= 0
        THEN [m |-> ShiftLeft(big, 0 - r), e |-> e + r]
        ELSE LET top == ShiftRight(big, r)
                 guard == Bit(big, r - 1)
                 rest == sticky \/ \E i \in 0..(r - 2) : Bit(big, i) = 1
                 up == guard = 1 /\ (rest \/ Bit(top, 0) = 1)
                 inc == IF up THEN AddBig(top, <<1>>) ELSE top
             IN  IF BitLen(inc) > Precision
                 THEN [m |-> ShiftRight(inc, 1), e |-> e + r + 1]
                 ELSE [m |-> inc, e |-> e + r]

\* x + y on doubles
FAdd(x, y) ==
    IF x.m = <<>> THEN y
    ELSE IF y.m = <<>> THEN x
    ELSE LET e == Min(x.e, y.e)
         IN  RoundBig(AddBig(ShiftLeft(x.m, x.e - e), ShiftLeft(y.m, y.e - e)), e, FALSE)

\* the double a decimal amount of k model units is parsed to (JSON.parse,
\* parseFloat): the double nearest to k / Units
ToDouble(k) ==
    IF k = 0 THEN DZero
    ELSE LET d == DivSmall(ShiftLeft(BigOfInt(k), Precision + 11), Units)
         IN  RoundBig(d.q, 0 - (Precision + 11), d.r # 0)

\* expenses.reduce((sum, expense) => sum + expense.amount, 0)
RECURSIVE ReduceAmounts(_, _)
ReduceAmounts(sum, exps) ==
    IF exps = <<>> THEN sum
    ELSE ReduceAmounts(FAdd(sum, ToDouble(Head(exps).amount)), Tail(exps))

\* stats.totalExpenses of GET /:tripId, over trip.expenses as queried
StatsTotalExpenses(exps) == ReduceAmounts(DZero, exps)

\* totalExpenses of the render body of the Expenses page
PageTotalExpenses(pg) == ReduceAmounts(DZero, pg.expenses)

\* totalSpent of the Analytics page: the reduce, or 0 when that is falsy
totalSpent(exps) ==
    LET sum == ReduceAmounts(DZero, exps)
    IN  IF sum.m = <<>> THEN DZero ELSE sum

\* calculateTotalExpenses of the trip-details page: an amount that is
\* falsy counts as 0
RECURSIVE TripDetailsReduce(_, _)
TripDetailsReduce(sum, exps) ==
    IF exps = <<>> THEN sum
    ELSE TripDetailsReduce(
            FAdd(sum, IF Head(exps).amount = 0 THEN DZero
                      ELSE ToDouble(Head(exps).amount)),
            Tail(exps))

calculateTotalExpenses(exps) == TripDetailsReduce(DZero, exps)

----------------------------------------------------------------------------
(* Expenses page: calculateBalances *)

IsAccepted(m) == m.status = "ACCEPTED"

AcceptedMembers(tripMembers) == SelectSeq(tripMembers, IsAccepted)

InitialBalances(tripMembers) ==
    LET acc == AcceptedMembers(tripMembers)
    IN  [k \in 1..Len(acc) |->
            [userId |-> acc[k].userId, userName |-> UserName(acc[k].userId),
             totalPaid |-> 0, totalOwed |-> 0, balance |-> 0]]

HasKey(bals, u) == \E k \in 1..Len(bals) : bals[k].userId = u

RECURSIVE AddSplits(_, _)
AddSplits(bals, splits) ==
    IF splits = <<>> THEN bals
    ELSE LET s == Head(splits)
             next == [k \in 1..Len(bals) |->
                        IF bals[k].userId = s.userId
                        THEN [bals[k] EXCEPT !.totalOwed = @ + s.amount]
                        ELSE bals[k]]
         IN  AddSplits(next, Tail(splits))

AddPaid(bals, e) ==
    [k \in 1..Len(bals) |->
        IF bals[k].userId = e.paidById
        THEN [bals[k] EXCEPT !.totalPaid = @ + e.amount]
        ELSE bals[k]]

\* the forEach over the expenses; acc.threw is the TypeError of reading
\* userBalances[expense.paidById].totalPaid when the payer has no entry
RECURSIVE AccumulateExpenses(_, _)
AccumulateExpenses(acc, exps) ==
    IF exps = <<>> \/ acc.threw THEN acc
    ELSE LET e == Head(exps)
         IN  IF Len(e.splits) = 0 THEN AccumulateExpenses(acc, Tail(exps))
             ELSE IF ~HasKey(acc.balances, e.paidById)
                  THEN [acc EXCEPT !.threw = TRUE]
                  ELSE AccumulateExpenses(
                         [acc EXCEPT !.balances = AddSplits(AddPaid(@, e), e.splits)],
                         Tail(exps))

FinalBalance_PaidMinusOwed(b) == [b EXCEPT !.balance = b.totalPaid - b.totalOwed]

FinalBalance(b) == [b EXCEPT !.balance = b.totalOwed - b.totalPaid]

calculateBalances(tripMembers, exps) ==
    LET acc == AccumulateExpenses(
                 [threw |-> FALSE, balances |-> InitialBalances(tripMembers)], exps)
    IN  [threw |-> acc.threw,
         balances |-> [k \in 1..Len(acc.balances) |-> FinalBalance(acc.balances[k])]]

RECURSIVE SumNets(_)
SumNets(bals) ==
    IF bals = <<>> THEN 0 ELSE Head(bals).balance + SumNets(Tail(bals))

----------------------------------------------------------------------------
(* Expenses page: getSettlementSuggestions *)

\* Array.prototype.sort is stable: idx goes behind every index already placed
\* that the comparator does not put after it
RECURSIVE InsertBy(_, _, _, _)
InsertBy(sorted, idx, bals, desc) ==
    IF sorted = <<>> THEN <<idx>>
    ELSE LET h == Head(sorted)
             before == IF desc THEN bals[h].balance >= bals[idx].balance
                               ELSE bals[h].balance <= bals[idx].balance
         IN  IF before THEN <<h>> \o InsertBy(Tail(sorted), idx, bals, desc)
             ELSE <<idx>> \o sorted

RECURSIVE SortBy(_, _, _)
SortBy(idxs, bals, desc) ==
    IF idxs = <<>> THEN <<>>
    ELSE InsertBy(SortBy(SubSeq(idxs, 1, Len(idxs) - 1), bals, desc),
                  idxs[Len(idxs)], bals, desc)

Indices(bals) == [k \in 1..Len(bals) |-> k]

\* debtors and creditors hold references to the Balance objects of the
\* balances array: the model keeps them as indices into it
Debtors_OrZero(bals) ==
    SortBy(SelectSeq(Indices(bals), LAMBDA k : bals[k].balance >= 0), bals, TRUE)

Debtors(bals) ==
    SortBy(SelectSeq(Indices(bals), LAMBDA k : bals[k].balance > 0), bals, TRUE)

Creditors(bals) ==
    SortBy(SelectSeq(Indices(bals), LAMBDA k : bals[k].balance < 0), bals, FALSE)

RECURSIVE SettleLoop(_, _, _, _, _, _)
SettleLoop(bals, debtors, creditors, i, j, settlements) ==
    IF i <= Len(debtors) /\ j <= Len(creditors)
    THEN LET d == debtors[i]
             c == creditors[j]
             amount == Min(bals[d].balance, -bals[c].balance)
             next == [bals EXCEPT ![d].balance = @ - amount,
                                  ![c].balance = @ + amount]
         IN  SettleLoop(next, debtors, creditors,
                        IF next[d].balance = 0 THEN i + 1 ELSE i,
                        IF next[c].balance = 0 THEN j + 1 ELSE j,
                        Append(settlements,
                               [from |-> bals[d].userName, to |-> bals[c].userName,
                                amount |-> ToFixed2(amount)]))
    ELSE [settlements |-> settlements, balances |-> bals]

getSettlementSuggestions_Unfiltered(bals) ==
    SettleLoop(bals, SortBy(Indices(bals), bals, TRUE),
               SortBy(Indices(bals), bals, FALSE), 1, 1, <<>>)

\* returns the settlements and the balances array as the call leaves it
getSettlementSuggestions(bals) ==
    SettleLoop(bals, Debtors(bals), Creditors(bals), 1, 1, <<>>)

----------------------------------------------------------------------------
(* Backend: expenseSchema and the state of the trip *)

Tolerance == Cent     \* the 0.01 of expenseSchema's refinement

\* the issues expenseSchema.parse raises on a body (description, category,
\* date and the uuid format of the user ids are taken to be well-formed)
SchemaIssues(body) ==
    (IF body.amount > 0 THEN {} ELSE {"Amount must be positive"})
    \cup (IF \A k \in 1..Len(body.splits) : body.splits[k].amount > 0
          THEN {} ELSE {"Split amount must be positive"})
    \cup (IF Len(body.splits) >= 1 THEN {} ELSE {"At least one split is required"})
    \cup (IF Abs(SumSplits(body.splits) - body.amount) < Tolerance
          THEN {} ELSE {"Sum of splits must equal total amount"})

NoTrip == <<"null">>

NoResult == [status |-> 0, error |-> "", details |-> {}]

IdleReq ==
    [pc |-> "idle", userId |-> "",
     body |-> [amount |-> 0, category |-> "", paidById |-> "", splits |-> <<>>],
     participants |-> {}, fromForm |-> FALSE, memberIds |-> NoTrip, result |-> NoResult,
     invitationId |-> 0, action |-> ""]

HasRow(u) == \E k \in 1..Len(members) : members[k].userId = u

\* where: OR [ ownerId = userId, members some (userId, ACCEPTED) ]
HasAccess(u) ==
    \/ u = Owner
    \/ \E k \in 1..Len(members) : members[k].userId = u /\ IsAccepted(members[k])

AcceptedIds(tripMembers) ==
    LET acc == AcceptedMembers(tripMembers)
    IN  [k \in 1..Len(acc) |-> acc[k].userId]

Busy == {r \in DOMAIN reqs : reqs[r].pc # "idle"}

----------------------------------------------------------------------------
(* Backend: POST /:tripId/expenses *)

\* expenseSchema.parse(req.body), then the findFirst of the trip with its
\* accepted members; the handler awaits the query, so what follows it is
\* a later step
PostExpenseBegin(r, u, body, participants, fromForm) ==
    /\ reqs[r].pc = "idle"
    /\ LET issues == SchemaIssues(body)
           base == [IdleReq EXCEPT !.userId = u, !.body = body,
                                   !.participants = participants, !.fromForm = fromForm]
       IN  reqs' = [reqs EXCEPT ![r] =
                IF issues # {}
                THEN [base EXCEPT !.pc = "done",
                        !.result = [status |-> 400, error |-> "Validation failed",
                                    details |-> issues]]
                ELSE [base EXCEPT !.pc = "queried",
                        !.memberIds = IF HasAccess(u) THEN AcceptedIds(members)
                                      ELSE NoTrip]]

ExpenseRow(r) ==
    [paidById |-> reqs[r].userId, amount |-> reqs[r].body.amount,
     category |-> reqs[r].body.category,
     splits |-> [k \in 1..Len(reqs[r].body.splits) |->
                   [userId |-> reqs[r].body.splits[k].userId,
                    amount |-> reqs[r].body.splits[k].amount]]]

\* two of the splits name the same user
HasDuplicateUser(splits) ==
    \E j, k \in 1..Len(splits) : j < k /\ splits[j].userId = splits[k].userId

InvalidSplitUsers_None(r) == {}

InvalidSplitUsers(r) ==
    {k \in 1..Len(reqs[r].body.splits) :
        reqs[r].body.splits[k].userId \notin Range(reqs[r].memberIds)}

\* the rest of the handler: 404, the membership check of the splits, create
PostExpenseCreate(r) ==
    /\ reqs[r].pc = "queried"
    /\ IF reqs[r].memberIds = NoTrip
       THEN /\ reqs' = [reqs EXCEPT ![r].pc = "done",
                    ![r].result = [status |-> 404, error |-> "Trip not found",
                                   details |-> {}]]
            /\ UNCHANGED expenses
       ELSE IF InvalidSplitUsers(r) # {}
       THEN /\ reqs' = [reqs EXCEPT ![r].pc = "done",
                    ![r].result = [status |-> 400,
                                   error |-> "Some users in splits are not trip members",
                                   details |-> {}]]
            /\ UNCHANGED expenses
       ELSE \/ /\ expenses' = Append(expenses, ExpenseRow(r))
               /\ reqs' = [reqs EXCEPT ![r].pc = "done",
                       ![r].result = [status |-> 201, error |-> "", details |-> {}]]
            \* prisma.expense.create throws when the database refuses the
            \* rows: whether it refuses two splits of one user in one expense
            \* is set by the database schema, so both outcomes are kept
            \/ /\ HasDuplicateUser(reqs[r].body.splits)
               /\ UNCHANGED expenses
               /\ reqs' = [reqs EXCEPT ![r].pc = "done",
                       ![r].result = [status |-> 500, error |-> "Failed to add expense",
                                      details |-> {}]]
    /\ UNCHANGED <<members, nextRowId, page>>

----------------------------------------------------------------------------
(* Backend: calculateMemberBalances of GET /:tripId *)

\* balances[userId] of the object the helper returns; a key exists for every
\* payer and split user of the expenses
RECURSIVE MemberBalanceOf(_, _)
MemberBalanceOf(u, exps) ==
    IF exps = <<>> THEN 0
    ELSE LET e == Head(exps)
             paid == IF e.paidById = u THEN e.amount ELSE 0
             owed == SumSplits(SelectSeq(e.splits, LAMBDA sp : sp.userId = u))
         IN  paid - owed + MemberBalanceOf(u, Tail(exps))

BalanceKeys(exps) ==
    UNION {{exps[k].paidById} \cup {exps[k].splits[j].userId : j \in 1..Len(exps[k].splits)} :
            k \in 1..Len(exps)}

calculateMemberBalances(exps) ==
    [u \in BalanceKeys(exps) |-> MemberBalanceOf(u, exps)]

----------------------------------------------------------------------------
(* Analytics page: calculateMemberBalances *)

RECURSIVE AnalyticsPaid(_, _)
AnalyticsPaid(u, exps) ==
    IF exps = <<>> THEN 0
    ELSE (IF Head(exps).paidById = u THEN Head(exps).amount ELSE 0)
         + AnalyticsPaid(u, Tail(exps))

RECURSIVE AnalyticsOwes(_, _)
AnalyticsOwes(u, exps) ==
    IF exps = <<>> THEN 0
    ELSE SumSplits(SelectSeq(Head(exps).splits, LAMBDA sp : sp.userId = u))
         + AnalyticsOwes(u, Tail(exps))

\* one entry per accepted member; a payment or a split of a user without an
\* entry is skipped by the if (balances[...]) guards
AnalyticsMemberBalances(tripMembers, exps) ==
    LET acc == AcceptedMembers(tripMembers)
    IN  [k \in 1..Len(acc) |->
            [userId |-> acc[k].userId, name |-> UserName(acc[k].userId),
             paid |-> AnalyticsPaid(acc[k].userId, exps),
             owes |-> AnalyticsOwes(acc[k].userId, exps),
             balance |-> AnalyticsPaid(acc[k].userId, exps)
                         - AnalyticsOwes(acc[k].userId, exps)]]

----------------------------------------------------------------------------
(* Analytics page: calculateCategorySpending *)

\* expense.category || 'OTHER'
CategoryOf(e) == IF e.category = "" THEN "OTHER" ELSE e.category

\* the forEach over trip.expenses: acc lists the keys of the categories
\* object in the order they were created, each with its running total
RECURSIVE CategoryTotals(_, _)
CategoryTotals(acc, exps) ==
    IF exps = <<>> THEN acc
    ELSE LET c == CategoryOf(Head(exps))
             a == ToDouble(Head(exps).amount)
             next == IF \E k \in 1..Len(acc) : acc[k].name = c
                     THEN [k \in 1..Len(acc) |->
                             IF acc[k].name = c
                             THEN [acc[k] EXCEPT !.amount = FAdd(@, a)]
                             ELSE acc[k]]
                     ELSE Append(acc, [name |-> c, amount |-> FAdd(DZero, a)])
         IN  CategoryTotals(next, Tail(exps))

\* name and amount of each entry the function returns (its percentage, a
\* display string, is left out)
calculateCategorySpending(exps) == CategoryTotals(<<>>, exps)

----------------------------------------------------------------------------
(* Backend: membership of the trip *)

\* POST /:tripId/invite by the owner, for the registered user u
Invite(u) ==
    /\ nextRowId <= MaxRows
    /\ IF HasRow(u)
       THEN UNCHANGED <<members, nextRowId>>
       ELSE /\ members' = Append(members,
                    [id |-> nextRowId, userId |-> u, role |-> "MEMBER",
                     status |-> "PENDING"])
            /\ nextRowId' = nextRowId + 1
    /\ UNCHANGED <<expenses, reqs, page>>

\* POST /invitations/:invitationId/respond by user u
Respond(invitationId, u, action) ==
    /\ IF \E k \in 1..Len(members) :
            /\ members[k].id = invitationId
            /\ members[k].userId = u
            /\ members[k].status = "PENDING"
       THEN members' = [k \in 1..Len(members) |->
                IF members[k].id = invitationId
                THEN [members[k] EXCEPT
                        !.status = IF action = "accept" THEN "ACCEPTED" ELSE "DECLINED"]
                ELSE members[k]]
       ELSE UNCHANGED members
    /\ UNCHANGED <<nextRowId, expenses, reqs, page>>

\* the same handler with its two database calls as the steps they are: the
\* findFirst of the PENDING invitation of user u, which the handler awaits
RespondFind(r, invitationId, u, action) ==
    /\ reqs[r].pc = "idle"
    /\ reqs' = [reqs EXCEPT ![r] =
            IF \E k \in 1..Len(members) :
                    /\ members[k].id = invitationId
                    /\ members[k].userId = u
                    /\ members[k].status = "PENDING"
            THEN [IdleReq EXCEPT !.pc = "found", !.userId = u,
                                 !.invitationId = invitationId, !.action = action]
            ELSE [IdleReq EXCEPT !.pc = "done", !.userId = u,
                    !.invitationId = invitationId, !.action = action,
                    !.result = [status |-> 404,
                                error |-> "Invitation not found or already processed",
                                details |-> {}]]]
    /\ UNCHANGED <<members, nextRowId, expenses, page>>

\* prisma.tripMember.update({ where: { id } }) and the response; update
\* throws when the row is gone, which ends in the catch with status 500
RespondUpdate(r) ==
    /\ reqs[r].pc = "found"
    /\ IF \E k \in 1..Len(members) : members[k].id = reqs[r].invitationId
       THEN /\ members' = [k \in 1..Len(members) |->
                    IF members[k].id = reqs[r].invitationId
                    THEN [members[k] EXCEPT
                            !.status = IF reqs[r].action = "accept"
                                       THEN "ACCEPTED" ELSE "DECLINED"]
                    ELSE members[k]]
            /\ reqs' = [reqs EXCEPT ![r].pc = "done",
                    ![r].result = [status |-> 200, error |-> "", details |-> {}]]
       ELSE /\ UNCHANGED members
            /\ reqs' = [reqs EXCEPT ![r].pc = "done",
                    ![r].result = [status |-> 500,
                                   error |-> "Failed to process invitation",
                                   details |-> {}]]
    /\ UNCHANGED <<nextRowId, expenses, page>>

\* POST /:tripId/leave by user u
Leave_OwnerToo(u) ==
    /\ IF \E k \in 1..Len(members) :
            members[k].userId = u /\ IsAccepted(members[k])
       THEN members' = SelectSeq(members, LAMBDA m : m.userId # u)
       ELSE UNCHANGED members
    /\ UNCHANGED <<nextRowId, expenses, reqs, page>>

Leave(u) ==
    /\ IF u # Owner /\ \E k \in 1..Len(members) :
                            members[k].userId = u /\ IsAccepted(members[k])
       THEN members' = SelectSeq(members, LAMBDA m : m.userId # u)
       ELSE UNCHANGED members
    /\ UNCHANGED <<nextRowId, expenses, reqs, page>>

\* DELETE /:tripId/members/:memberId by user u
RemoveMember(u, memberId) ==
    /\ IF \E k \in 1..Len(members) : members[k].id = memberId
       THEN LET memberToRemove ==
                    CHOOSE m \in Range(members) : m.id = memberId
                isTripOwner == Owner = u
                isRemovingSelf == memberToRemove.userId = u
                otherOwners == {m \in Range(members) :
                                    m.userId # u /\ m.role = "OWNER"}
            IN  IF ~isTripOwner /\ ~isRemovingSelf
                THEN UNCHANGED members
                ELSE IF isRemovingSelf /\ isTripOwner /\ otherOwners = {}
                THEN UNCHANGED members
                ELSE members' = SelectSeq(members, LAMBDA m : m.id # memberId)
       ELSE UNCHANGED members
    /\ UNCHANGED <<nextRowId, expenses, reqs, page>>

----------------------------------------------------------------------------
(* Expenses page *)

Viewer == Owner       \* the signed-in user of the page

InitPage ==
    [loaded |-> FALSE, trip |-> <<>>, expenses |-> <<>>, balances |-> <<>>,
     settlements |-> <<>>, isLoading |-> TRUE, crashed |-> FALSE,
     rerendered |-> FALSE]

\* one evaluation of the component body: getSettlementSuggestions runs on
\* the balances state and leaves its objects as the loop left them
RenderPage(pg) ==
    LET s == getSettlementSuggestions(pg.balances)
    IN  [pg EXCEPT !.settlements = s.settlements, !.balances = s.balances]

\* fetchExpenses on page state pg: GET /:tripId, setTrip, setExpenses and
\* setIsLoading (one batched render), the effect on [expenses, trip] that
\* calls calculateBalances, and the render that setBalances causes
FetchExpensesOn(pg) ==
    IF ~HasAccess(Viewer)
    THEN RenderPage([pg EXCEPT !.isLoading = FALSE])
    ELSE LET got == RenderPage([pg EXCEPT !.loaded = TRUE, !.trip = members,
                                          !.expenses = Reverse(expenses),
                                          !.isLoading = FALSE])
             calc == calculateBalances(got.trip, got.expenses)
         IN  IF Len(got.expenses) > 0
             THEN IF calc.threw
                  THEN [got EXCEPT !.crashed = TRUE]
                  ELSE RenderPage([got EXCEPT !.balances = calc.balances,
                                              !.rerendered = FALSE])
             ELSE [got EXCEPT !.rerendered = TRUE]

\* the page is opened: fresh component state, then the effect on [tripId]
Mount ==
    /\ page' = FetchExpensesOn(InitPage)
    /\ UNCHANGED <<members, nextRowId, expenses, reqs>>

\* any later render of the mounted page (the form is opened, a field changes)
Render ==
    /\ page.loaded /\ ~page.crashed
    /\ page' = [RenderPage(page) EXCEPT !.rerendered = TRUE]
    /\ UNCHANGED <<members, nextRowId, expenses, reqs>>

\* the splits handleAddExpense builds from the form
FormSplits(pg, amount, splitBetween) ==
    LET acceptedMembers == AcceptedMembers(pg.trip)
        splitBetweenUsers ==
            IF Cardinality(splitBetween) > 0
            THEN SelectSeq(acceptedMembers, LAMBDA m : m.userId \in splitBetween)
            ELSE acceptedMembers
        amountPerPerson == Divide(amount, Len(splitBetweenUsers))
    IN  [k \in 1..Len(splitBetweenUsers) |->
            [userId |-> splitBetweenUsers[k].userId, amount |-> amountPerPerson]]

FormAmounts == {Money(90, 0), Money(100, 0)}

FormCategory == "OTHER"   \* the category the form starts with

\* the form is submitted with the given amount, 'Paid By' choice and
\* 'Split Between' selection; the request reaches the backend
HandleAddExpense(r, amount, paidBy, splitBetween) ==
    /\ page.loaded /\ ~page.crashed
    /\ splitBetween \subseteq Range(AcceptedIds(page.trip))
    /\ paidBy \in {""} \cup Range(AcceptedIds(page.trip))
    /\ Len(AcceptedMembers(page.trip)) > 0
    /\ PostExpenseBegin(r, Viewer,
            [amount |-> amount, category |-> FormCategory,
             paidById |-> IF paidBy # "" THEN paidBy ELSE Viewer,
             splits |-> FormSplits(page, amount, splitBetween)],
            splitBetween, TRUE)
    /\ UNCHANGED <<members, nextRowId, expenses, page>>

\* createExpense returned: on success the form is reset and fetchExpenses
\* runs again on the mounted page; on failure the error is logged
HandleAddExpenseResume(r) ==
    /\ reqs[r].pc = "done" /\ reqs[r].fromForm
    /\ page' = IF reqs[r].result.status = 201 /\ ~page.crashed
               THEN FetchExpensesOn(page)
               ELSE page
    /\ reqs' = [reqs EXCEPT ![r] = IdleReq]
    /\ UNCHANGED <<members, nextRowId, expenses>>

----------------------------------------------------------------------------
(* Other API clients *)

HalfCent == Cent \div 2

ApiSplits ==
    {<<>>} \cup
    {<<[userId |-> "A", amount |-> Money(20, 0)], [userId |-> v, amount |-> x]>> :
        v \in {"B", "C"}, x \in {Money(30, 0), Money(30, 0) + HalfCent, Money(30, 1)}}

\* category is optional in expenseSchema: "" is a body without one
ApiBodies ==
    {[amount |-> Money(50, 0), category |-> "", paidById |-> "", splits |-> s] :
        s \in ApiSplits}

ApiParticipants(body) == {body.splits[k].userId : k \in 1..Len(body.splits)}

\* a signed-in user posts an expense without the form
ApiAddExpense(r, u, body) ==
    /\ PostExpenseBegin(r, u, body, ApiParticipants(body), FALSE)
    /\ UNCHANGED <<members, nextRowId, expenses, page>>

ClientReceive(r) ==
    /\ reqs[r].pc = "done" /\ ~reqs[r].fromForm
    /\ reqs' = [reqs EXCEPT ![r] = IdleReq]
    /\ UNCHANGED <<members, nextRowId, expenses, page>>

----------------------------------------------------------------------------
(* The system *)

Init ==
    /\ members = <<[id |-> 1, userId |-> Owner, role |-> "OWNER", status |-> "ACCEPTED"]>>
    /\ nextRowId = 2
    /\ expenses = <<>>
    /\ reqs = [r \in 1..MaxRequests |-> IdleReq]
    /\ page = InitPage

\* the membership handlers, as any signed-in user may call them
MemberStep ==
    \/ \E u \in Users : Invite(u)
    \/ \E id \in 1..MaxRows, u \in Users, action \in {"accept", "decline"} :
            Respond(id, u, action)
    \/ \E u \in Users : Leave(u)
    \/ \E u \in Users, id \in 1..MaxRows : RemoveMember(u, id)

\* the later steps of the add-expense requests under way
RequestStep ==
    \/ \E r \in DOMAIN reqs : PostExpenseCreate(r)
    \/ \E r \in DOMAIN reqs : ClientReceive(r)

Room(max) == Len(expenses) + Cardinality(Busy) < max

ApiStep ==
    /\ Room(MaxExpenses)
    /\ \E r \in 1..MaxRequests, u \in Users, body \in ApiBodies : ApiAddExpense(r, u, body)

FormStep ==
    /\ Room(MaxExpenses)
    /\ \E r \in 1..MaxRequests, amount \in FormAmounts, paidBy \in {"", "B"},
          splitBetween \in SUBSET Users :
            HandleAddExpense(r, amount, paidBy, splitBetween)

Next ==
    \/ MemberStep
    \/ RequestStep
    \/ ApiStep
    \/ Mount
    \/ Render
    \/ FormStep
    \/ \E r \in 1..MaxRequests : HandleAddExpenseResume(r)

Spec == Init /\ [][Next]_vars

\* the backend alone: the page is never opened
NextBackend ==
    \/ MemberStep
    \/ RequestStep
    \/ ApiStep

SpecBackend == Init /\ [][NextBackend]_vars

\* the backend with clients that also send the same user in two splits
DuplicateBodies ==
    {[amount |-> Money(50, 0), category |-> "", paidById |-> "",
      splits |-> <<[userId |-> "A", amount |-> Money(20, 0)],
                   [userId |-> "A", amount |-> Money(30, 0)]>>]}

ApiDuplicateStep ==
    /\ Room(MaxExpenses)
    /\ \E r \in 1..MaxRequests, u \in Users, body \in DuplicateBodies :
            ApiAddExpense(r, u, body)

NextDuplicate ==
    \/ NextBackend
    \/ ApiDuplicateStep

SpecDuplicate == Init /\ [][NextDuplicate]_vars

\* the membership handlers alone, with a client that opens the trip and
\* reads its member rows
NextMembers ==
    \/ MemberStep
    \/ Mount

SpecMembers == Init /\ [][NextMembers]_vars

\* the membership handlers with respond requests that overlap: one request
\* more in flight at once than the other specifications allow, each taking
\* its two database calls as separate steps
InitInvitations ==
    /\ members = <<[id |-> 1, userId |-> Owner, role |-> "OWNER", status |-> "ACCEPTED"]>>
    /\ nextRowId = 2
    /\ expenses = <<>>
    /\ reqs = [r \in 1..(MaxRequests + 1) |-> IdleReq]
    /\ page = InitPage

RespondStep ==
    \/ \E r \in DOMAIN reqs, id \in 1..MaxRows, u \in Users, action \in {"accept", "decline"} :
            RespondFind(r, id, u, action)
    \/ \E r \in DOMAIN reqs : RespondUpdate(r)
    \/ \E r \in DOMAIN reqs : ClientReceive(r)

NextInvitations ==
    \/ MemberStep
    \/ RespondStep

SpecInvitations == InitInvitations /\ [][NextInvitations]_vars

\* concurrent requests: the trip of A and B, with one request more in
\* flight at once than the other specifications allow, and room in the
\* ledger for the expense of each
InitConcurrent ==
    /\ members = <<[id |-> 1, userId |-> Owner, role |-> "OWNER", status |-> "ACCEPTED"],
                   [id |-> 2, userId |-> "B", role |-> "MEMBER", status |-> "ACCEPTED"]>>
    /\ nextRowId = Len(members) + 1
    /\ expenses = <<>>
    /\ reqs = [r \in 1..(MaxRequests + 1) |-> IdleReq]
    /\ page = InitPage

ConcurrentApiStep ==
    /\ Room(MaxExpenses + 1)
    /\ \E r \in DOMAIN reqs, u \in Users, body \in ApiBodies : ApiAddExpense(r, u, body)

NextConcurrent ==
    \/ RequestStep
    \/ ConcurrentApiStep

SpecConcurrent == InitConcurrent /\ [][NextConcurrent]_vars

----------------------------------------------------------------------------
(* The page over any stored trip: the membership rows and the ledger are   *)
(* drawn from the rows the handlers above can leave behind, and the page   *)
(* is opened and rendered over them.                                       *)

UserOrder == <<"A", "B", "C">>

Statuses == {"PENDING", "ACCEPTED", "DECLINED"}

OwnerRow == [id |-> 1, userId |-> Owner, role |-> "OWNER", status |-> "ACCEPTED"]

MemberRow(id, u, st) == [id |-> id, userId |-> u, role |-> "MEMBER", status |-> st]

\* the owner's row, then rows of other users in either order of invitation
MemberSnapshots ==
    {<<OwnerRow>>}
    \cup {<<OwnerRow, MemberRow(2, u, st)>> : u \in Users \ {Owner}, st \in Statuses}
    \cup {<<OwnerRow, MemberRow(2, uv[1], su), MemberRow(3, uv[2], sv)>> :
            uv \in {<<"B", "C">>, <<"C", "B">>}, su \in Statuses, sv \in Statuses}

\* amount split the way the form splits it, over the users of S
EqualBody(amount, S) ==
    LET who == SelectSeq(UserOrder, LAMBDA u : u \in S)
    IN  [amount |-> amount, category |-> FormCategory, paidById |-> "",
         splits |-> [k \in 1..Len(who) |->
                        [userId |-> who[k], amount |-> Divide(amount, Len(who))]]]

SheetBodies ==
    {b \in ApiBodies \cup {EqualBody(a, S) : a \in FormAmounts, S \in (SUBSET Users) \ {{}}} :
        SchemaIssues(b) = {}}

SheetRows ==
    {[paidById |-> u, amount |-> b.amount, category |-> b.category,
      splits |-> [k \in 1..Len(b.splits) |->
                    [userId |-> b.splits[k].userId, amount |-> b.splits[k].amount]]] :
        u \in Users, b \in SheetBodies}

RECURSIVE Ledgers(_)
Ledgers(n) ==
    IF n = 0 THEN {<<>>}
    ELSE Ledgers(n - 1) \cup
         {Append(l, row) : l \in {x \in Ledgers(n - 1) : Len(x) = n - 1}, row \in SheetRows}

InitSheet ==
    /\ members \in MemberSnapshots
    /\ nextRowId = Len(members) + 1
    /\ expenses \in Ledgers(MaxExpenses)
    /\ reqs = [r \in 1..MaxRequests |-> IdleReq]
    /\ page = InitPage

NextSheet == Mount \/ Render

SpecSheet == InitSheet /\ [][NextSheet]_vars

----------------------------------------------------------------------------
(* The settlement planner over any balances: the page holds three members  *)
(* with nets drawn in half cents, and renders.                             *)

NetValues == {k * HalfCent : k \in (0 - MaxNet)..MaxNet}

BalanceOf(u, net) ==
    [userId |-> u, userName |-> UserName(u),
     totalPaid |-> IF net < 0 THEN -net ELSE 0,
     totalOwed |-> IF net > 0 THEN net ELSE 0,
     balance |-> net]

AllAccepted == <<OwnerRow, MemberRow(2, "B", "ACCEPTED"), MemberRow(3, "C", "ACCEPTED")>>

InitSettle ==
    /\ members = AllAccepted
    /\ nextRowId = Len(members) + 1
    /\ expenses = <<>>
    /\ reqs = [r \in 1..MaxRequests |-> IdleReq]
    /\ \E a \in NetValues, b \in NetValues, c \in NetValues :
         page = [InitPage EXCEPT !.loaded = TRUE, !.isLoading = FALSE,
                                 !.trip = AllAccepted,
                                 !.balances = <<BalanceOf("A", a), BalanceOf("B", b),
                                                BalanceOf("C", c)>>]

NextSettle == Render

SpecSettle == InitSettle /\ [][NextSettle]_vars

\* the same page with nets below half a cent, as amounts of a fraction of a
\* cent and the rounding of sums of doubles leave them
ResidueNets == (0 - MaxNet)..MaxNet

InitResidue ==
    /\ members = AllAccepted
    /\ nextRowId = Len(members) + 1
    /\ expenses = <<>>
    /\ reqs = [r \in 1..MaxRequests |-> IdleReq]
    /\ \E a \in ResidueNets, b \in ResidueNets, c \in ResidueNets :
         page = [InitPage EXCEPT !.loaded = TRUE, !.isLoading = FALSE,
                                 !.trip = AllAccepted,
                                 !.balances = <<BalanceOf("A", a), BalanceOf("B", b),
                                                BalanceOf("C", c)>>]

SpecResidue == InitResidue /\ [][NextSettle]_vars

----------------------------------------------------------------------------
(* The totals over any ledger: the owner's trip holds up to MaxLedger      *)
(* expenses of a few dimes each, and the page is opened and rendered.      *)

MaxLedger == 3        \* expenses of the ledgers drawn in SpecTotals

TotalAmounts == {Money(0, 10), Money(0, 20), Money(0, 30)}

\* the categories of the form, and "" for an expense stored without one
TotalCategories == {"", "FOOD", "OTHER"}

TotalsRows ==
    {[paidById |-> Owner, amount |-> a, category |-> c,
      splits |-> <<[userId |-> Owner, amount |-> a]>>] :
        a \in TotalAmounts, c \in TotalCategories}

RECURSIVE LedgersOf(_, _)
LedgersOf(rows, n) ==
    IF n = 0 THEN {<<>>}
    ELSE LedgersOf(rows, n - 1) \cup
         {Append(l, row) : l \in {x \in LedgersOf(rows, n - 1) : Len(x) = n - 1},
                           row \in rows}

InitTotals ==
    /\ members = <<OwnerRow>>
    /\ nextRowId = Len(members) + 1
    /\ expenses \in LedgersOf(TotalsRows, MaxLedger)
    /\ reqs = [r \in 1..MaxRequests |-> IdleReq]
    /\ page = InitPage

SpecTotals == InitTotals /\ [][NextSheet]_vars

----------------------------------------------------------------------------
(* Properties *)

RECURSIVE SumOver(_, _)
SumOver(f, S) ==
    IF S = {} THEN 0
    ELSE LET x == CHOOSE y \in S : TRUE IN f[x] + SumOver(f, S \ {x})

\* what the Expenses page computes when it loads the trip as stored now
StoredBalances == calculateBalances(members, Reverse(expenses))

\* C1: the nets of the balance computation sum to zero, on the Expenses page
\* and in the trip statistics of the backend, for every stored ledger and
\* membership
C1_Conservation ==
    /\ ~StoredBalances.threw => SumNets(StoredBalances.balances) = 0
    /\ LET stats == calculateMemberBalances(expenses)
       IN  SumOver(stats, DOMAIN stats) = 0

RECURSIVE Received(_, _)
Received(name, plan) ==
    IF plan = <<>> THEN 0
    ELSE (IF Head(plan).to = name THEN Head(plan).amount ELSE 0)
         - (IF Head(plan).from = name THEN Head(plan).amount ELSE 0)
         + Received(name, Tail(plan))

\* C2: applying every transfer of the settlement plan to the balances it was
\* computed from (debtor minus amount, creditor plus amount) leaves every net
\* at zero
C2_SettlementCorrect ==
    ~StoredBalances.threw =>
        LET plan == getSettlementSuggestions(StoredBalances.balances).settlements
        IN  \A k \in 1..Len(StoredBalances.balances) :
                StoredBalances.balances[k].balance
                    + Received(StoredBalances.balances[k].userName, plan) = 0

\* C3: the splits of every stored expense sum to its amount exactly
C3_ExactSplit ==
    \A k \in 1..Len(expenses) : SumSplits(expenses[k].splits) = expenses[k].amount

\* C4: a request whose splits do not sum exactly to its amount gets past
\* validation in no case: it ends with the split-mismatch error
C4_MismatchRejected ==
    \A r \in 1..MaxRequests :
        (reqs[r].pc # "idle" /\ SumSplits(reqs[r].body.splits) # reqs[r].body.amount)
        => /\ reqs[r].pc = "done"
           /\ reqs[r].result.status = 400
           /\ "Sum of splits must equal total amount" \in reqs[r].result.details

NonZero(bals) == {k \in 1..Len(bals) : bals[k].balance # 0}

\* C5: the plan has at most (members with nonzero net) - 1 transfers, and
\* none when no member has a nonzero net
C5_SettlementMinimal ==
    LET n == Cardinality(NonZero(page.balances))
        plan == getSettlementSuggestions(page.balances).settlements
    IN  Len(plan) <= IF n = 0 THEN 0 ELSE n - 1

C5_Witness ==
    /\ page.rerendered
    /\ Len(page.settlements) = 2

Nets(bals) == [k \in 1..Len(bals) |-> bals[k].balance]

\* C6: a render that follows another with the same loaded ledger and
\* membership shows the same balances and the same settlement list
C6_Deterministic ==
    [][(page.loaded /\ ~page.crashed /\ page'.loaded /\ ~page'.crashed
        /\ page'.trip = page.trip /\ page'.expenses = page.expenses)
       => (page'.settlements = page.settlements
           /\ Nets(page'.balances) = Nets(page.balances))]_vars

\* the split of amount (a whole number of cents) the remainder rule gives
\* participant k of n
RemainderRule(amount, n, k) ==
    LET cents == amount \div Cent
    IN  ((cents \div n) + (IF k <= cents % n THEN 1 ELSE 0)) * Cent

\* C7: the splits the form sends are floor(A/n) cents each, one cent more for
\* the first (A mod n) participants, and sum to A
C7_RemainderRule ==
    \A r \in 1..MaxRequests :
        (reqs[r].pc # "idle" /\ reqs[r].fromForm)
        => /\ \A k \in 1..Len(reqs[r].body.splits) :
                reqs[r].body.splits[k].amount
                    = RemainderRule(reqs[r].body.amount, Len(reqs[r].body.splits), k)
           /\ SumSplits(reqs[r].body.splits) = reqs[r].body.amount

ScenarioExpense ==
    [paidById |-> "A", amount |-> Money(90, 0), category |-> FormCategory,
     splits |-> <<[userId |-> "A", amount |-> Money(30, 0)],
                  [userId |-> "B", amount |-> Money(30, 0)],
                  [userId |-> "C", amount |-> Money(30, 0)]>>]

ScenarioLoaded ==
    /\ page.loaded /\ ~page.rerendered
    /\ Range(AcceptedIds(page.trip)) = {"A", "B", "C"}
    /\ page.expenses = <<ScenarioExpense>>

NetOf(bals, u) == (CHOOSE b \in Range(bals) : b.userId = u).balance

\* C8: members A, B, C and one expense of 90.00 paid by A, split equally:
\* the nets are A -60.00, B +30.00, C +30.00 and the plan is exactly the
\* transfers B to A 30.00 and C to A 30.00
C8_Scenario ==
    ScenarioLoaded =>
        LET calc == calculateBalances(page.trip, page.expenses)
        IN  /\ ~calc.threw /\ ~page.crashed
            /\ NetOf(calc.balances, "A") = 0 - Money(60, 0)
            /\ NetOf(calc.balances, "B") = Money(30, 0)
            /\ NetOf(calc.balances, "C") = Money(30, 0)
            /\ Len(page.settlements) = 2
            /\ Range(page.settlements) =
                 {[from |-> UserName("B"), to |-> UserName("A"), amount |-> Money(30, 0)],
                  [from |-> UserName("C"), to |-> UserName("A"), amount |-> Money(30, 0)]}

C8_Witness == ScenarioLoaded /\ Len(page.settlements) = 2

\* C9: a request made with an empty participant set ends with the
\* empty-participants error and is never carried on with other splits
C9_EmptyParticipantsRejected ==
    \A r \in 1..MaxRequests :
        (reqs[r].pc # "idle" /\ reqs[r].participants = {})
        => /\ reqs[r].pc = "done"
           /\ reqs[r].result.status = 400
           /\ "At least one split is required" \in reqs[r].result.details

\* the request names, in a split, a user who is not an accepted member in the
\* membership the handler reads (the stored one while it has read none)
NamesNonMember(q) ==
    \E k \in 1..Len(q.body.splits) :
        q.body.splits[k].userId \notin
            (IF q.memberIds = NoTrip THEN Range(AcceptedIds(members))
             ELSE Range(q.memberIds))

C11_DuplicateRejected ==
    /\ \A r \in DOMAIN reqs :
            (reqs[r].pc = "done" /\ HasDuplicateUser(reqs[r].body.splits))
            => reqs[r].result.status \in {400, 404}
    /\ \A k \in 1..Len(expenses) : ~HasDuplicateUser(expenses[k].splits)

\* the users an expense refers to: its payer and the users of its splits
RefersTo(e) == {e.paidById} \cup {e.splits[k].userId : k \in 1..Len(e.splits)}

\* some stored expense refers to a user who is not an accepted member now
LedgerHasOutsider ==
    \E k \in 1..Len(expenses) :
        ~(RefersTo(expenses[k]) \subseteq Range(AcceptedIds(members)))

\* C12: over a ledger that refers to a user outside the accepted membership
\* the balance computation of the Expenses page ends in an error, and no
\* computation returns balances from which a payment or a split was dropped
\* (the totals paid and owed still add up to those of the ledger)
C12_UnknownMemberError ==
    LedgerHasOutsider =>
        /\ StoredBalances.threw
        /\ LET stats == AnalyticsMemberBalances(members, Reverse(expenses))
           IN  /\ SumOver([k \in DOMAIN stats |-> stats[k].paid], DOMAIN stats)
                    = SumAmounts(expenses)
               /\ SumOver([k \in DOMAIN stats |-> stats[k].owes], DOMAIN stats)
                    = SumOver([k \in DOMAIN expenses |-> SumSplits(expenses[k].splits)],
                              DOMAIN expenses)

\* the user ids of the entries of a balance output, in order
EntryIds(bals) == [k \in 1..Len(bals) |-> bals[k].userId]

\* user u neither paid an expense of exps nor appears in a split of one
Inactive(u, exps) == \A k \in 1..Len(exps) : u \notin RefersTo(exps[k])

\* C13: once the page is loaded its balances hold one entry per accepted
\* member of the loaded trip, an entry of zeros for a member without
\* activity, for every ledger and for the empty one; the member balances
\* of the trip statistics have an entry for every accepted member too
C13_OneEntryPerMember ==
    (page.loaded /\ ~page.crashed) =>
        /\ EntryIds(page.balances) = AcceptedIds(page.trip)
        /\ \A k \in 1..Len(page.balances) :
                Inactive(page.balances[k].userId, page.expenses)
                => /\ page.balances[k].totalPaid = 0
                   /\ page.balances[k].totalOwed = 0
                   /\ page.balances[k].balance = 0
        /\ Range(AcceptedIds(page.trip))
                \subseteq DOMAIN calculateMemberBalances(page.expenses)

\* C14: when the nets of the computed balances do not sum to zero the
\* settlement planner returns no transfer list that leaves a member with a
\* nonzero remaining balance (it is to fail instead; the planner of the code
\* has no failing outcome, so it always returns)
C14_UnbalancedRejected ==
    (~StoredBalances.threw /\ SumNets(StoredBalances.balances) # 0) =>
        LET left == getSettlementSuggestions(StoredBalances.balances).balances
        IN  \A k \in 1..Len(left) : left[k].balance = 0

AllZero(bals) == \A k \in 1..Len(bals) : bals[k].balance = 0

\* C15: when every member's net is zero the settlement planner returns the
\* empty transfer list (and leaves the balances as they are)
C15_AllZeroEmptyPlan ==
    AllZero(page.balances) =>
        /\ getSettlementSuggestions(page.balances).settlements = <<>>
        /\ getSettlementSuggestions(page.balances).balances = page.balances

C15_Witness ==
    /\ page.rerendered
    /\ Len(page.balances) = 3
    /\ AllZero(page.balances)
    /\ \A k \in 1..Len(page.balances) : page.balances[k].totalPaid = 0
    /\ page.settlements = <<>>

\* the amounts of the transfers of a plan, added up
RECURSIVE SumTransfers(_)
SumTransfers(plan) ==
    IF plan = <<>> THEN 0 ELSE Head(plan).amount + SumTransfers(Tail(plan))

\* the positive nets of a balance output, added up
RECURSIVE SumPositiveNets(_)
SumPositiveNets(bals) ==
    IF bals = <<>> THEN 0
    ELSE (IF Head(bals).balance > 0 THEN Head(bals).balance ELSE 0)
         + SumPositiveNets(Tail(bals))

\* C16: the amounts of the transfers of the settlement plan add up to the
\* sum of the positive nets of the balances it was computed from
C16_TransferTotal ==
    ~StoredBalances.threw =>
        SumTransfers(getSettlementSuggestions(StoredBalances.balances).settlements)
            = SumPositiveNets(StoredBalances.balances)

\* the ledger exps in the order p
Permuted(exps, p) == [k \in 1..Len(exps) |-> exps[p[k]]]

\* C17: the total the Expenses page reports is the sum of the amounts of
\* the loaded ledger, the same in every order of the ledger, zero for the
\* empty ledger, and the total the trip statistics, the Analytics page and
\* the trip-details page report for that ledger
C17_TotalSpent ==
    page.loaded =>
        LET t == PageTotalExpenses(page)
        IN  /\ t = ToDouble(SumAmounts(page.expenses))
            /\ \A p \in Permutations(1..Len(page.expenses)) :
                    ReduceAmounts(DZero, Permuted(page.expenses, p)) = t
            /\ page.expenses = <<>> => t = DZero
            /\ StatsTotalExpenses(page.expenses) = t
            /\ totalSpent(page.expenses) = t
            /\ calculateTotalExpenses(page.expenses) = t

\* the amounts of a category breakdown, added up in its order
RECURSIVE SumBreakdown(_, _)
SumBreakdown(sum, cs) ==
    IF cs = <<>> THEN sum ELSE SumBreakdown(FAdd(sum, Head(cs).amount), Tail(cs))

\* C18: the category breakdown of the loaded ledger has one entry for each
\* category that has an expense ("OTHER" for an expense without category)
\* and for no other, the entry holds the sum of the amounts of the expenses
\* of its category, and the entries add up to totalSpent
C18_CategoryBreakdown ==
    page.loaded =>
        LET cs == calculateCategorySpending(page.expenses)
        IN  /\ {cs[k].name : k \in 1..Len(cs)}
                    = {CategoryOf(page.expenses[k]) : k \in 1..Len(page.expenses)}
            /\ \A j, k \in 1..Len(cs) : cs[j].name = cs[k].name => j = k
            /\ \A k \in 1..Len(cs) :
                    cs[k].amount = ReduceAmounts(DZero,
                        SelectSeq(page.expenses, LAMBDA e : CategoryOf(e) = cs[k].name))
            /\ SumBreakdown(DZero, cs) = totalSpent(page.expenses)

\* C19: the balances the loaded page holds and shows are the balances
\* computed afresh from the ledger and the membership it has loaded (stated
\* for a loaded ledger that is not empty: over the empty one the page
\* computes no balances at all, which C13 is about)
C19_BalancesCurrent ==
    (page.loaded /\ ~page.crashed /\ Len(page.expenses) > 0) =>
        LET calc == calculateBalances(page.trip, page.expenses)
        IN  ~calc.threw /\ page.balances = calc.balances

\* every request in flight has ended with its expense created
AllCreated ==
    \A r \in DOMAIN reqs : reqs[r].pc = "done" /\ reqs[r].result.status = 201

\* the ledger holds the expense of every request, each with all its splits
EachStored ==
    /\ Len(expenses) = Cardinality(DOMAIN reqs)
    /\ \A r \in DOMAIN reqs : \E k \in 1..Len(expenses) : expenses[k] = ExpenseRow(r)

\* C20: when the add-expense requests that ran side by side have all ended
\* with their expense created, the ledger holds the expense of each with
\* all its splits, and the nets computed from that ledger sum to zero
C20_ConcurrentAdds ==
    (Cardinality(DOMAIN reqs) > 1 /\ AllCreated) =>
        /\ EachStored
        /\ ~StoredBalances.threw
        /\ SumNets(StoredBalances.balances) = 0

\* C21: the settlement loop over the balances of the stored trip ends after
\* at most (debtors + creditors - 1) iterations, one transfer pushed per
\* iteration, and leaves every balance at zero
C21_LoopEndsSettled ==
    ~StoredBalances.threw =>
        LET bals == StoredBalances.balances
            run == getSettlementSuggestions(bals)
            n == Len(Debtors(bals)) + Len(Creditors(bals))
        IN  /\ Len(run.settlements) <= IF n = 0 THEN 0 ELSE n - 1
            /\ \A k \in 1..Len(run.balances) : run.balances[k].balance = 0

\* the place of a user id in the order of the ids
IdRank(u) == CHOOSE k \in 1..Len(UserOrder) : UserOrder[k] = u

\* idxs lists entries of bals by falling magnitude of the net, entries of
\* equal magnitude by rising user id
ByMagnitudeThenId(idxs, bals) ==
    \A k \in 1..(Len(idxs) - 1) :
        \/ Abs(bals[idxs[k]].balance) > Abs(bals[idxs[k + 1]].balance)
        \/ /\ Abs(bals[idxs[k]].balance) = Abs(bals[idxs[k + 1]].balance)
           /\ IdRank(bals[idxs[k]].userId) < IdRank(bals[idxs[k + 1]].userId)

\* the membership rows of tripMembers listed by user id
SortedById(tripMembers) ==
    LET ids == SelectSeq(UserOrder,
                         LAMBDA u : \E k \in 1..Len(tripMembers) : tripMembers[k].userId = u)
    IN  [k \in 1..Len(ids) |-> CHOOSE m \in Range(tripMembers) : m.userId = ids[k]]

\* C22: the debtors and the creditors of the loaded trip are taken by falling
\* magnitude with equal magnitudes by rising member id, and the plan is the
\* one computed with the membership rows listed in any other order
C22_TieBreakById ==
    (page.loaded /\ ~page.crashed) =>
        LET bals == calculateBalances(page.trip, page.expenses).balances
            byId == calculateBalances(SortedById(page.trip), page.expenses).balances
        IN  /\ ByMagnitudeThenId(Debtors(bals), bals)
            /\ ByMagnitudeThenId(Creditors(bals), bals)
            /\ getSettlementSuggestions(bals).settlements
                 = getSettlementSuggestions(byId).settlements

\* C23: a render, which computes the settlement plan from the balances the
\* page holds, leaves every balance entry (balance, totalPaid, totalOwed) as
\* it was, and leaves the loaded and the stored membership and ledger alone
C23_PlanLeavesInputs ==
    [][Render =>
        /\ Len(page'.balances) = Len(page.balances)
        /\ \A k \in 1..Len(page.balances) : page'.balances[k] = page.balances[k]
        /\ page'.trip = page.trip /\ page'.expenses = page.expenses
        /\ members' = members /\ expenses' = expenses]_vars

\* C24: for every accepted member of the stored trip, the Expenses page, the
\* Analytics page and the trip statistics of the backend give the same net,
\* and it is totalOwed - totalPaid
C24_SameNet ==
    ~StoredBalances.threw =>
        LET analytics == AnalyticsMemberBalances(members, expenses)
            stats == calculateMemberBalances(expenses)
        IN  \A k \in 1..Len(StoredBalances.balances) :
                LET b == StoredBalances.balances[k]
                IN  /\ b.balance = b.totalOwed - b.totalPaid
                    /\ analytics[k].userId = b.userId
                    /\ analytics[k].balance = b.balance
                    /\ IF b.userId \in DOMAIN stats
                       THEN stats[b.userId] = b.balance
                       ELSE b.balance = 0

\* the totalPaid of user u in the balances the page computes from the trip
\* as stored (0 when u has no entry or the computation throws)
PaidTotalOf(u, tripMembers, exps) ==
    LET calc == calculateBalances(tripMembers, Reverse(exps))
        mine == SelectSeq(calc.balances, LAMBDA b : b.userId = u)
    IN  IF calc.threw \/ mine = <<>> THEN 0 ELSE mine[1].totalPaid

\* C25: when a request that supplies a payer id ends with its expense
\* created, the stored expense names that payer, and the next balance
\* computation counts the amount in that member's totalPaid
C25_PayerAsSupplied ==
    [][\A r \in DOMAIN reqs :
        (reqs[r].pc = "queried" /\ reqs'[r].pc = "done"
         /\ reqs'[r].result.status = 201 /\ reqs[r].body.paidById # "")
        => /\ Len(expenses') = Len(expenses) + 1
           /\ expenses'[Len(expenses')].paidById = reqs[r].body.paidById
           /\ PaidTotalOf(reqs[r].body.paidById, members', expenses')
                >= PaidTotalOf(reqs[r].body.paidById, members, expenses)
                   + reqs[r].body.amount]_vars

\* C26: the payer and the user of every split of every stored expense is an
\* accepted member of the trip as it is now, whatever add-expense, leave and
\* remove-member steps came before and however they interleaved
C26_ReferencesAccepted ==
    \A k \in 1..Len(expenses) :
        RefersTo(expenses[k]) \subseteq Range(AcceptedIds(members))

\* the owner of the trip has a membership row with status ACCEPTED
OwnerIsMember(tripMembers) ==
    \E k \in 1..Len(tripMembers) :
        tripMembers[k].userId = Owner /\ tripMembers[k].status = "ACCEPTED"

\* the step is a leave request of the owner, or a remove-member request of
\* the owner on a row of their own
OwnerLeaves ==
    \/ Leave(Owner)
    \/ \E k \in 1..Len(members) :
            members[k].userId = Owner /\ RemoveMember(Owner, members[k].id)

\* C27: the owner has an ACCEPTED membership row before and after every step
\* of the invite, respond, leave and remove-member handlers, and a leave or
\* a self-removal requested by the owner changes no membership row
C27_OwnerStaysMember ==
    [][/\ OwnerIsMember(members)
       /\ OwnerIsMember(members')
       /\ OwnerLeaves => members' = members]_vars

C27_Witness ==
    /\ OwnerIsMember(members)
    /\ nextRowId = MaxRows + 1
    /\ Len(members) = 2
    /\ members[2].status = "ACCEPTED"

\* the entries of bals with the given name whose net has the given sign
WithSign(bals, name, sign) ==
    {k \in 1..Len(bals) : bals[k].userName = name /\ bals[k].balance * sign > 0}

\* C28: every transfer of the plan has an amount above zero and goes from a
\* member whose net was positive to another member whose net was negative,
\* and the loop leaves no debtor below zero and no creditor above zero (a
\* debtor's balance only falls and a creditor's only rises during the loop,
\* so the balances it ends with bound the ones in between)
C28_TransfersWellFormed ==
    LET bals == page.balances
        run == getSettlementSuggestions(bals)
    IN  /\ \A t \in 1..Len(run.settlements) :
                LET s == run.settlements[t]
                IN  /\ s.amount > 0
                    /\ s.from # s.to
                    /\ WithSign(bals, s.from, 1) # {}
                    /\ WithSign(bals, s.to, -1) # {}
        /\ \A k \in 1..Len(bals) :
                /\ bals[k].balance > 0 => run.balances[k].balance >= 0
                /\ bals[k].balance < 0 => run.balances[k].balance <= 0

\* the step carries out a respond request of the user of row on that row
RespondingTo(row) ==
    \/ \E r \in DOMAIN reqs :
            /\ reqs[r].pc = "found" /\ reqs'[r].pc = "done"
            /\ reqs[r].invitationId = row.id /\ reqs[r].userId = row.userId
    \/ \E action \in {"accept", "decline"} : Respond(row.id, row.userId, action)

\* C29: a membership row changes status only from PENDING, only to ACCEPTED
\* or DECLINED and only in a respond request of its own user (so at most
\* once, and a respond request on a row that is no longer PENDING or is
\* another user's leaves it as it is), and no user has two rows in the trip
C29_StatusOnce ==
    [][/\ \A j \in 1..Len(members), k \in 1..Len(members') :
            (members[j].id = members'[k].id /\ members[j].status # members'[k].status)
            => /\ members[j].status = "PENDING"
               /\ members'[k].status \in {"ACCEPTED", "DECLINED"}
               /\ RespondingTo(members[j])
       /\ \A j, k \in 1..Len(members') :
            j # k => members'[j].userId # members'[k].userId]_vars

\* the sum of all split amounts of the ledger
SumLedgerSplits(exps) ==
    SumOver([k \in DOMAIN exps |-> SumSplits(exps[k].splits)], DOMAIN exps)

\* C30: in the balances the Expenses page and the Analytics page compute from
\* the stored trip, the totals paid of the members add up to the sum of the
\* expense amounts and their totals owed to the sum of all split amounts
C30_TotalsAddUp ==
    /\ ~StoredBalances.threw =>
            LET bals == StoredBalances.balances
            IN  /\ SumOver([k \in DOMAIN bals |-> bals[k].totalPaid], DOMAIN bals)
                     = SumAmounts(expenses)
                /\ SumOver([k \in DOMAIN bals |-> bals[k].totalOwed], DOMAIN bals)
                     = SumLedgerSplits(expenses)
    /\ LET stats == AnalyticsMemberBalances(members, expenses)
       IN  /\ SumOver([k \in DOMAIN stats |-> stats[k].paid], DOMAIN stats)
                = SumAmounts(expenses)
           /\ SumOver([k \in DOMAIN stats |-> stats[k].owes], DOMAIN stats)
                = SumLedgerSplits(expenses)

====
